---- MODULE Spec2Model ----
(***************************************************************************)
(* Credit-Card-Analyzer: the card analysis page and the database query     *)
(* page of src/src/app.py, run by two browser sessions against one shared  *)
(* record store.  The three services app.py imports (blob storage, card    *)
(* validator, database) are not part of the sources at hand; their         *)
(* operators below follow the written specification and are marked so.     *)
(***************************************************************************)
EXTENDS Integers, Sequences, FiniteSets, TLC

\* The clock stops advancing at this value (datetime.now() is unbounded).
MaxTime == 2

\* Two browser sessions, each running one page handler at a time.
Sessions == {"s1", "s2"}

(***************************************************************************)
(* Values                                                                  *)
(***************************************************************************)
Vec1 == <<4,5,3,2,0,1,5,1,1,2,8,3,0,3,6,6>>
Vec2 == <<4,5,3,2,0,1,5,1,1,2,8,3,0,3,6,7>>
Visa == <<4,1,1,1,1,1,1,1,1,1,1,1,1,1,1,1>>
Short == <<1,8>>

\* The month and year validate_card_info reads from the clock.
Today == [month |-> 1, year |-> 2030]

CardInfo(n, e, h, b) ==
    [card_number |-> n, expiration |-> e, card_name |-> h, bank_name |-> b]

\* What detect_credit_card_info_from_url returns when it found nothing:
\* None or an empty mapping, both falsy at app.py line 73.
NoCardInfo == CardInfo(<<>>, <<>>, "", <<>>)

GoodExp == <<1, 2030>>
PastExp == <<12, 2029>>
BankX == <<"Bank", "X">>

\* The extraction results the model draws from.
CardInfos ==
    { CardInfo(Vec1, GoodExp, "GABRIEL LIMA", BankX),
      CardInfo(Visa, GoodExp, "ANA", BankX),
      CardInfo(Vec2, GoodExp, "ANA", BankX),
      CardInfo(Short, GoodExp, "ANA", BankX),
      CardInfo(Vec1, PastExp, "ANA", BankX),
      CardInfo(Visa, <<>>, "", BankX),
      CardInfo(Visa, GoodExp, "ANA", <<>>) }

Files == {"card_a.png", "card_b.jpg"}

\* upload_blob's URL for a stored file; "" stands for None.
BlobUrlOf(f) == IF f = "card_a.png" THEN "https://blob/card_a.png"
                ELSE "https://blob/card_b.jpg"

(***************************************************************************)
(* Card validator (services/credit_card_service.py, from the               *)
(* specification, section 4.2)                                             *)
(***************************************************************************)
RECURSIVE LuhnTotal(_, _, _)
\* Sum of the digits of d, read right to left from position i (1 = the
\* rightmost); a digit whose position has parity `doubled` is doubled and,
\* when the result is over 9, reduced by 9.
LuhnTotal(d, i, doubled) ==
    IF i > Len(d) THEN 0
    ELSE LET x == d[Len(d) + 1 - i]
             y == IF i % 2 = doubled THEN 2 * x ELSE x
             z == IF y > 9 THEN y - 9 ELSE y
         IN  z + LuhnTotal(d, i + 1, doubled)

\* The rule with the digits at odd positions (1-indexed from the right)
\* doubled: the rightmost digit itself is doubled.
luhn_odd_positions(d) == LuhnTotal(d, 1, 1) % 10 = 0

\* Rule 2: every second digit from the rightmost is doubled (the second, the
\* fourth, ...), the check digit is not.
luhn_check(d) == LuhnTotal(d, 1, 0) % 10 = 0

Opt(cond, x) == IF cond THEN <<>> ELSE <<x>>

NotPast(e) == e[2] > Today.year \/ (e[2] = Today.year /\ e[1] >= Today.month)

\* All six rules are evaluated; the failures accumulate in rule order.
validate_card_info(ci) ==
    LET f == Opt(Len(ci.card_number) \in 12..19, <<"card_number", "length">>)
          \o Opt(luhn_check(ci.card_number), <<"card_number", "checksum">>)
          \o Opt(ci.expiration # <<>>, <<"expiration", "missing">>)
          \o Opt(ci.expiration = <<>> \/ NotPast(ci.expiration),
                 <<"expiration", "past">>)
          \o Opt(ci.card_name # "", <<"card_name", "missing">>)
          \o Opt(ci.bank_name # <<>>, <<"bank_name", "missing">>)
    IN  [is_valid |-> f = <<>>, failures |-> f]

NoVerdict == [is_valid |-> FALSE, failures |-> <<>>]

(***************************************************************************)
(* Record store (services/data_base.py, from the specification, 4.3)       *)
(***************************************************************************)
\* get_card_by_number: the record with that exact card_number, or nothing.
get_card_by_number(st, n) == SelectSeq(st, LAMBDA r : r.card_number = n)

\* A fresh, monotonically increasing id.
NextId(st) == Len(st) + 1

NewRecord(st, ci) ==
    [id |-> NextId(st), card_number |-> ci.card_number,
     expiration |-> ci.expiration, card_name |-> ci.card_name,
     bank_name |-> ci.bank_name, is_valid |-> ci.is_valid,
     processed_at |-> ci.processed_at]

\* insert_card: DuplicateKey when the card_number is already stored,
\* otherwise the record is appended under a fresh id, atomically.
insert_card(st, ci) ==
    IF get_card_by_number(st, ci.card_number) # <<>>
    THEN [error |-> "DuplicateKey", store |-> st]
    ELSE [error |-> "", store |-> Append(st, NewRecord(st, ci))]

\* get_all_cards: full scan, by id ascending.
get_all_cards(st) == st

(***************************************************************************)
(* Query gateway (services/data_base.py, from the specification, 4.4).     *)
(* A query text is a sequence of tokens; " " is a run of whitespace.       *)
(***************************************************************************)
MutatingKeywords ==
    {"INSERT", "UPDATE", "DELETE", "DROP", "ALTER", "CREATE", "REPLACE",
     "ATTACH", "PRAGMA"}

\* Keywords compare case-insensitively.
Upper(t) ==
    CASE t = "select" -> "SELECT"
      [] t = "delete" -> "DELETE"
      [] t = "drop" -> "DROP"
      [] t = "from" -> "FROM"
      [] OTHER -> t

StripWS(q) == SelectSeq(q, LAMBDA t : t # " ")

\* Token i lies outside every quoted literal: an even number of quotes
\* precede it.
OutsideLiteral(q, i) ==
    Cardinality({j \in 1..(i - 1) : q[j] = "'"}) % 2 = 0

HasSeparator(q) == \E i \in 1..Len(q) : q[i] = ";" /\ OutsideLiteral(q, i)

HasComment(q) == \E i \in 1..Len(q) : q[i] \in {"--", "/*"}

\* The safety policy: non-blank, leading keyword SELECT, one statement, no
\* comment.
IsSingleReadOnly(q) ==
    /\ StripWS(q) # <<>>
    /\ Upper(Head(StripWS(q))) = "SELECT"
    /\ Upper(Head(StripWS(q))) \notin MutatingKeywords
    /\ ~HasSeparator(q)
    /\ ~HasComment(q)

\* The table app.py names on the query page (lines 94, 110, 120-123).
TableName == "credit_cards"

\* SELECT * FROM credit_cards [WHERE bank_name = '<literal>']
WellFormedWhere(t) ==
    /\ Len(t) >= 9
    /\ t[5] = "WHERE" /\ t[6] = "bank_name" /\ t[7] = "="
    /\ t[8] = "'" /\ t[Len(t)] = "'"

\* The statement fails at execution: unknown column, unknown table or
\* malformed syntax.
ExecutionFails(q) ==
    LET t == StripWS(q)
    IN  \/ Len(t) < 4
        \/ t[2] # "*"
        \/ Upper(t[3]) # "FROM"
        \/ t[4] # TableName
        \/ (Len(t) > 4 /\ ~WellFormedWhere(t))

\* The rows a read-only statement returns, verbatim.
RunSelect(q, st) ==
    LET t == StripWS(q)
    IN  IF Len(t) = 4 THEN st
        ELSE SelectSeq(st, LAMBDA r : r.bank_name = SubSeq(t, 9, Len(t) - 1))

\* execute_custom_query: ValueError for a text the policy rejects (nothing
\* is executed), an execution error for a statement that fails, the rows
\* otherwise.  The store is only read.
execute_custom_query(q, st) ==
    IF ~IsSingleReadOnly(q)
    THEN [error |-> "ValueError", executed |-> FALSE, rows |-> <<>>]
    ELSE IF ExecutionFails(q)
    THEN [error |-> "ExecutionError", executed |-> TRUE, rows |-> <<>>]
    ELSE [error |-> "", executed |-> TRUE, rows |-> RunSelect(q, st)]

Q_SelectCards == <<"SELECT", "*", "FROM", "cards">>
Q_Drop == <<"DROP", "TABLE", "cards">>
Q_Stacked == <<"SELECT", "*", "FROM", "cards", ";", "DROP", "TABLE", "cards">>
Q_Comment ==
    <<"SELECT", "*", "FROM", "cards", "--", ";", "DROP", "TABLE", "cards">>
Q_SelectAll == <<"SELECT", "*", "FROM", "credit_cards">>
Q_Lower == <<" ", "select", "*", "from", "credit_cards">>
Q_Delete == <<"delete", "FROM", "credit_cards">>
Q_NoColumn == <<"SELECT", "nocol", "FROM", "credit_cards">>
Q_ByBank ==
    <<"SELECT", "*", "FROM", "credit_cards", "WHERE", "bank_name", "=",
      "'", "Bank", "X", "'">>
Q_Literal ==
    <<"SELECT", "*", "FROM", "credit_cards", "WHERE", "bank_name", "=",
      "'", "Bank", ";", "X", "'">>

\* The texts typed into the query box.
Queries ==
    { Q_SelectCards, Q_Drop, Q_Stacked, Q_Comment, Q_SelectAll, Q_Lower,
      Q_Delete, Q_NoColumn, Q_ByBank, Q_Literal, <<>>, <<" ", " ">> }

(***************************************************************************)
(* State                                                                   *)
(***************************************************************************)
VARIABLES
    pc,                \* where each session's page handler stands
    file,              \* the uploaded file of the running analysis
    blob_url,          \* upload_blob's result ("" = None)
    extract_arg,       \* the URL the extraction was called with
    card_info,         \* the extraction result
    validation_result, \* validate_card_info's verdict
    query,             \* the text submitted on the query page
    outcome,           \* what the page reported
    error,             \* the exception raised in the interaction, if any
    reported_id,       \* the id shown by "Card already exists" (0 = none)
    calls,             \* the service calls of the interaction, in order
    store,             \* the credit_cards table
    now                \* datetime.datetime.now()

vars ==
    <<pc, file, blob_url, extract_arg, card_info, validation_result, query,
      outcome, error, reported_id, calls, store, now>>

locals ==
    <<file, blob_url, extract_arg, card_info, validation_result, query,
      outcome, error, reported_id, calls>>

Init ==
    /\ pc = [s \in Sessions |-> "idle"]
    /\ file = [s \in Sessions |-> ""]
    /\ blob_url = [s \in Sessions |-> ""]
    /\ extract_arg = [s \in Sessions |-> ""]
    /\ card_info = [s \in Sessions |-> NoCardInfo]
    /\ validation_result = [s \in Sessions |-> NoVerdict]
    /\ query = [s \in Sessions |-> <<>>]
    /\ outcome = [s \in Sessions |-> ""]
    /\ error = [s \in Sessions |-> ""]
    /\ reported_id = [s \in Sessions |-> 0]
    /\ calls = [s \in Sessions |-> <<>>]
    /\ store = <<>>
    /\ now = 0

Called(s, c) == \E i \in 1..Len(calls[s]) : calls[s][i] = c

\* The handler of session s returns after reporting o.
Report(s, o, e) ==
    /\ pc' = [pc EXCEPT ![s] = "done"]
    /\ outcome' = [outcome EXCEPT ![s] = o]
    /\ error' = [error EXCEPT ![s] = e]

Goto(s, l) ==
    /\ pc' = [pc EXCEPT ![s] = l]
    /\ UNCHANGED <<outcome, error>>

(***************************************************************************)
(* Card analysis page                                                      *)
(***************************************************************************)
\* A file is uploaded and "Analyze Card" is pressed.
AnalyzeCard(s) ==
    /\ pc[s] = "idle"
    /\ \E f \in Files : file' = [file EXCEPT ![s] = f]
    /\ Goto(s, "upload")
    /\ UNCHANGED <<blob_url, extract_arg, card_info, validation_result,
                   query, reported_id, calls, store, now>>

\* AfterUpload without the check of line 67: a missing URL goes on to the
\* extraction.
AfterUpload_NoCheck(s, u, raised) ==
    IF raised THEN Report(s, "analysis_exception", "Exception")
    ELSE Goto(s, "extract")

\* What the page makes of upload_blob's result u ("" = None); raised = the
\* call raised, which the handler of process_card_analysis catches.
AfterUpload(s, u, raised) ==
    IF raised THEN Report(s, "analysis_exception", "Exception")
    ELSE IF u = "" THEN Report(s, "upload_failed", "")
    ELSE Goto(s, "extract")

UploadBlob(s) ==
    /\ pc[s] = "upload"
    /\ calls' = [calls EXCEPT ![s] = Append(@, "upload_blob")]
    /\ \E u \in {BlobUrlOf(file[s]), ""}, raised \in BOOLEAN :
          /\ raised => u = ""
          /\ blob_url' = [blob_url EXCEPT ![s] = u]
          /\ AfterUpload(s, u, raised)
    /\ UNCHANGED <<file, extract_arg, card_info, validation_result, query,
                   reported_id, store, now>>

\* AfterDetect without the check of line 73: an empty result goes on to
\* the validation.
AfterDetect_NoCheck(s, ci, raised) ==
    IF raised THEN Report(s, "analysis_exception", "Exception")
    ELSE Goto(s, "validate")

\* What the page makes of the extraction result ci.
AfterDetect(s, ci, raised) ==
    IF raised THEN Report(s, "analysis_exception", "Exception")
    ELSE IF ci = NoCardInfo THEN Report(s, "unable_to_analyze", "")
    ELSE Goto(s, "validate")

DetectCardInfo(s) ==
    /\ pc[s] = "extract"
    /\ calls' = [calls EXCEPT ![s] = Append(@, "detect_credit_card_info")]
    /\ extract_arg' = [extract_arg EXCEPT ![s] = blob_url[s]]
    /\ \E ci \in CardInfos \cup {NoCardInfo}, raised \in BOOLEAN :
          /\ raised => ci = NoCardInfo
          /\ card_info' = [card_info EXCEPT ![s] = ci]
          /\ AfterDetect(s, ci, raised)
    /\ UNCHANGED <<file, blob_url, validation_result, query, reported_id,
                   store, now>>

\* AfterValidate without the branch of line 300: any verdict goes on to the
\* store.
AfterValidate_IgnoreVerdict(s, v, raised) ==
    IF raised THEN Report(s, "analysis_exception", "Exception")
    ELSE Goto(s, "lookup")

\* The page's branch on the verdict v.
AfterValidate(s, v, raised) ==
    IF raised THEN Report(s, "analysis_exception", "Exception")
    ELSE IF v.is_valid THEN Goto(s, "lookup")
    ELSE Report(s, "invalid", "")

ValidateCardInfo(s) ==
    /\ pc[s] = "validate"
    /\ calls' = [calls EXCEPT ![s] = Append(@, "validate_card_info")]
    /\ \E raised \in BOOLEAN :
          LET v == IF raised THEN NoVerdict
                   ELSE validate_card_info(card_info[s])
          IN  /\ validation_result' = [validation_result EXCEPT ![s] = v]
              /\ AfterValidate(s, v, raised)
    /\ UNCHANGED <<file, blob_url, extract_arg, card_info, query,
                   reported_id, store, now>>

\* AfterLookup without the branch of line 306: the insert follows whatever
\* the lookup returned.
AfterLookup_NoCheck(s, existing_card, raised) ==
    IF raised
    THEN /\ Report(s, "uncaught_exception", "DatabaseError")
         /\ UNCHANGED <<reported_id, store>>
    ELSE /\ Goto(s, "insert")
         /\ UNCHANGED <<reported_id, store>>

\* AfterLookup refreshing the record it found (an upsert).
AfterLookup_Upsert(s, existing_card, raised) ==
    IF raised
    THEN /\ Report(s, "uncaught_exception", "DatabaseError")
         /\ UNCHANGED <<reported_id, store>>
    ELSE IF existing_card # <<>>
    THEN /\ Report(s, "already_exists", "")
         /\ reported_id' = [reported_id EXCEPT ![s] = existing_card[1].id]
         /\ store' = [store EXCEPT ![existing_card[1].id].processed_at = now]
    ELSE /\ Goto(s, "insert")
         /\ UNCHANGED <<reported_id, store>>

\* The page's branch on the lookup result; an exception of the lookup is
\* caught nowhere.
AfterLookup(s, existing_card, raised) ==
    IF raised
    THEN /\ Report(s, "uncaught_exception", "DatabaseError")
         /\ UNCHANGED <<reported_id, store>>
    ELSE IF existing_card # <<>>
    THEN /\ Report(s, "already_exists", "")
         /\ reported_id' = [reported_id EXCEPT ![s] = existing_card[1].id]
         /\ UNCHANGED store
    ELSE /\ Goto(s, "insert")
         /\ UNCHANGED <<reported_id, store>>

GetCardByNumber(s) ==
    /\ pc[s] = "lookup"
    /\ calls' = [calls EXCEPT ![s] = Append(@, "get_card_by_number")]
    /\ \E raised \in BOOLEAN :
          AfterLookup(s, get_card_by_number(store, card_info[s].card_number),
                      raised)
    /\ UNCHANGED <<file, blob_url, extract_arg, card_info, validation_result,
                   query, now>>

\* The record the page hands to insert_card.
RecordToInsert(s) ==
    [card_number |-> card_info[s].card_number,
     expiration |-> card_info[s].expiration,
     card_name |-> card_info[s].card_name,
     bank_name |-> card_info[s].bank_name,
     is_valid |-> validation_result[s].is_valid,
     processed_at |-> now]

\* insert_card's result r reaches the page; an exception is caught nowhere.
AfterInsert(s, r, raised) ==
    IF raised
    THEN /\ Report(s, "uncaught_exception", "DatabaseError")
         /\ UNCHANGED store
    ELSE IF r.error # ""
    THEN /\ Report(s, "uncaught_exception", r.error)
         /\ UNCHANGED store
    ELSE /\ Report(s, "inserted", "")
         /\ store' = r.store

InsertCard(s) ==
    /\ pc[s] = "insert"
    /\ calls' = [calls EXCEPT ![s] = Append(@, "insert_card")]
    /\ \E raised \in BOOLEAN :
          AfterInsert(s, insert_card(store, RecordToInsert(s)), raised)
    /\ UNCHANGED <<file, blob_url, extract_arg, card_info, validation_result,
                   query, reported_id, now>>

(***************************************************************************)
(* Database query page                                                     *)
(***************************************************************************)
\* The page loads: get_all_cards inside its own try/except.
OpenQueryPage(s) ==
    /\ pc[s] = "idle"
    /\ calls' = [calls EXCEPT ![s] = Append(@, "get_all_cards")]
    /\ \E raised \in BOOLEAN :
          error' = [error EXCEPT ![s] = IF raised THEN "LoadError" ELSE ""]
    /\ pc' = [pc EXCEPT ![s] = "query"]
    /\ UNCHANGED <<file, blob_url, extract_arg, card_info, validation_result,
                   query, outcome, reported_id, store, now>>

\* QueryOutcome with the two except clauses in the other order: the general
\* one catches the ValueError too.
QueryOutcome_ExceptOrder(r) ==
    IF r.error # "" THEN "execution_error"
    ELSE IF r.rows # <<>> THEN "results"
    ELSE "no_results"

\* QueryOutcome swallowing an execution error: the page shows no rows.
QueryOutcome_Swallow(r) ==
    IF r.error = "ValueError" THEN "validation_error"
    ELSE IF r.rows # <<>> THEN "results"
    ELSE "no_results"

\* What the page reports for execute_custom_query's result r.
QueryOutcome(r) ==
    IF r.error = "ValueError" THEN "validation_error"
    ELSE IF r.error # "" THEN "execution_error"
    ELSE IF r.rows # <<>> THEN "results"
    ELSE "no_results"

\* "Execute Query" is pressed with the text q in the box.
ExecuteQuery(s) ==
    /\ pc[s] = "query"
    /\ \E q \in Queries :
          LET r == execute_custom_query(q, store)
          IN  /\ query' = [query EXCEPT ![s] = q]
              /\ calls' = [calls EXCEPT ![s] =
                    @ \o <<"execute_custom_query">>
                      \o (IF r.executed THEN <<"run_statement">> ELSE <<>>)]
              /\ Report(s, QueryOutcome(r), r.error)
    /\ UNCHANGED <<file, blob_url, extract_arg, card_info, validation_result,
                   reported_id, store, now>>

(***************************************************************************)
(* Script reruns and the clock                                             *)
(***************************************************************************)
\* The handler has returned; the next interaction starts from scratch.
Rerun(s) ==
    /\ pc[s] = "done"
    /\ pc' = [pc EXCEPT ![s] = "idle"]
    /\ file' = [file EXCEPT ![s] = ""]
    /\ blob_url' = [blob_url EXCEPT ![s] = ""]
    /\ extract_arg' = [extract_arg EXCEPT ![s] = ""]
    /\ card_info' = [card_info EXCEPT ![s] = NoCardInfo]
    /\ validation_result' = [validation_result EXCEPT ![s] = NoVerdict]
    /\ query' = [query EXCEPT ![s] = <<>>]
    /\ outcome' = [outcome EXCEPT ![s] = ""]
    /\ error' = [error EXCEPT ![s] = ""]
    /\ reported_id' = [reported_id EXCEPT ![s] = 0]
    /\ calls' = [calls EXCEPT ![s] = <<>>]
    /\ UNCHANGED <<store, now>>

Tick ==
    /\ now < MaxTime
    /\ now' = now + 1
    /\ UNCHANGED <<pc, locals, store>>

Step(s) ==
    \/ AnalyzeCard(s)
    \/ UploadBlob(s)
    \/ DetectCardInfo(s)
    \/ ValidateCardInfo(s)
    \/ GetCardByNumber(s)
    \/ InsertCard(s)
    \/ OpenQueryPage(s)
    \/ ExecuteQuery(s)
    \/ Rerun(s)

\* Sessions interleave at the service calls.
Next == Tick \/ \E s \in Sessions : Step(s)

Spec == Init /\ [][Next]_vars

\* One interaction at a time: a session moves only while every other
\* session is idle.
NextSeq ==
    \/ Tick
    \/ \E s \in Sessions :
          /\ \A t \in Sessions \ {s} : pc[t] = "idle"
          /\ Step(s)

SpecSeq == Init /\ [][NextSeq]_vars

(***************************************************************************)
(* Properties                                                              *)
(***************************************************************************)
Finished(s) == pc[s] = "done"

CardNumberOf(s) == card_info[s].card_number

Stored(n) == get_card_by_number(store, n) # <<>>

\* validate_card_info returned a verdict in this interaction.
Validated(s) ==
    Called(s, "validate_card_info") /\ outcome[s] # "analysis_exception"

ChecksumPass(v) ==
    \A i \in 1..Len(v.failures) : v.failures[i] # <<"card_number", "checksum">>

\* C1: with the interactions run one after the other, no two records of the
\* store share a card_number, and the page calls insert_card only for a
\* card_number its lookup did not find and the store does not hold, so no
\* insert is ever refused as a duplicate.
C1_InsertedAtMostOnce ==
    /\ \A i, j \in 1..Len(store) :
          store[i].card_number = store[j].card_number => i = j
    /\ \A s \in Sessions :
          /\ pc[s] = "insert" => ~Stored(CardNumberOf(s))
          /\ Called(s, "insert_card") =>
                /\ Called(s, "get_card_by_number")
                /\ error[s] # "DuplicateKey"

\* A second upload of a stored card_number was answered "already exists".
C1_Witness ==
    \E s \in Sessions :
        /\ outcome[s] = "already_exists"
        /\ Stored(CardNumberOf(s))
        /\ Len(store) = 2

\* C2 (as claimed): of two interleaved interactions for one card_number
\* exactly one insert succeeds and the other fails with DuplicateKey, and no
\* insert_card follows a get_card_by_number whose answer another insert has
\* made stale in between.
C2_NoReadThenWriteRace ==
    /\ \A s, t \in Sessions :
          ( /\ s # t
            /\ Finished(s) /\ Finished(t)
            /\ Called(s, "insert_card") /\ Called(t, "insert_card")
            /\ CardNumberOf(s) = CardNumberOf(t)
            /\ error[s] # "DatabaseError" /\ error[t] # "DatabaseError" )
          => \/ outcome[s] = "inserted" /\ error[t] = "DuplicateKey"
             \/ outcome[t] = "inserted" /\ error[s] = "DuplicateKey"
    /\ \A s \in Sessions : pc[s] = "insert" => ~Stored(CardNumberOf(s))

\* C3: a record is written only after a verdict with is_valid = TRUE for the
\* same extraction; an invalid verdict ends the interaction with no store
\* call; every stored record has is_valid = TRUE.
C3_StoredOnlyValid ==
    /\ \A i \in 1..Len(store) :
          /\ store[i].is_valid = TRUE
          /\ validate_card_info(
                 CardInfo(store[i].card_number, store[i].expiration,
                          store[i].card_name, store[i].bank_name)).is_valid
    /\ \A s \in Sessions :
          /\ (Called(s, "get_card_by_number") \/ Called(s, "insert_card"))
                => Validated(s) /\ validation_result[s].is_valid
          /\ (Validated(s) /\ ~validation_result[s].is_valid)
                => /\ outcome[s] = "invalid"
                   /\ ~Called(s, "get_card_by_number")
                   /\ ~Called(s, "insert_card")

\* An invalid verdict was reported while the store holds a record.
C3_Witness ==
    \E s \in Sessions :
        /\ outcome[s] = "invalid"
        /\ card_info[s].card_number = Vec2
        /\ store # <<>>

\* A query submission of session s has just returned.
C4_Submitted(s) == Finished(s) /\ Called(s, "execute_custom_query")

C4_Rejected(s) ==
    outcome[s] = "validation_error" /\ ~Called(s, "run_statement")

C5_OddPositionsRule ==
    \A s \in Sessions : Validated(s) =>
        /\ CardNumberOf(s) = Vec1 => luhn_odd_positions(CardNumberOf(s))
        /\ CardNumberOf(s) = Vec2 => ~luhn_odd_positions(CardNumberOf(s))

\* C5 (amended): with the digits at the even positions doubled (the second
\* from the right, the fourth, ...; the rightmost digit is not doubled) the
\* verdict reports checksum pass for 4532015112830366 and checksum fail for
\* 4532015112830367.
C5_EvenPositionsRule ==
    \A s \in Sessions : Validated(s) =>
        /\ CardNumberOf(s) = Vec1 => ChecksumPass(validation_result[s])
        /\ CardNumberOf(s) = Vec2 => ~ChecksumPass(validation_result[s])

\* Both vectors have been validated.
C5_Witness ==
    \E s, t \in Sessions :
        /\ Validated(s) /\ CardNumberOf(s) = Vec1
        /\ Validated(t) /\ CardNumberOf(t) = Vec2

\* The extraction of session s was called and gave nothing usable.
C6_ExtractionFailed(s) ==
    /\ Called(s, "detect_credit_card_info")
    /\ pc[s] # "extract"
    /\ card_info[s] = NoCardInfo

C6_NoFurtherCall(s) ==
    /\ Finished(s)
    /\ ~Called(s, "validate_card_info")
    /\ ~Called(s, "get_card_by_number")
    /\ ~Called(s, "insert_card")

\* C6 (as claimed): an extraction that returns nothing usable, or fails,
\* ends the interaction with "Unable to analyze card.", with no validation,
\* lookup or insert.
C6_AlwaysUnableToAnalyze ==
    \A s \in Sessions : C6_ExtractionFailed(s) =>
        outcome[s] = "unable_to_analyze" /\ C6_NoFurtherCall(s)

\* C6 (amended): an extraction that returns nothing usable ends the
\* interaction with "Unable to analyze card."; one that raises ends it with
\* "Error during card analysis"; in both cases validate_card_info is not
\* called, no lookup or insert is made and the store is unchanged.
C6_NoRecordOnExtractionFailure ==
    /\ [](\A s \in Sessions : C6_ExtractionFailed(s) =>
            /\ C6_NoFurtherCall(s)
            /\ error[s] = "" => outcome[s] = "unable_to_analyze"
            /\ error[s] # "" => outcome[s] = "analysis_exception")
    /\ [][\A s \in Sessions :
            (pc[s] = "extract" /\ pc'[s] # "extract") => store' = store]_vars

\* One extraction returned nothing, another raised, over a non-empty store.
C6_Witness ==
    \E s, t \in Sessions :
        /\ C6_ExtractionFailed(s) /\ outcome[s] = "unable_to_analyze"
        /\ C6_ExtractionFailed(t) /\ outcome[t] = "analysis_exception"
        /\ store # <<>>

\* C7: an upload that returns no URL ends the interaction with the upload
\* failure and without an extraction; the extraction is called only right
\* after an upload that returned a URL, and with that URL.
C7_ExtractionAfterUpload ==
    \A s \in Sessions :
        /\ (Called(s, "upload_blob") /\ pc[s] # "upload" /\ blob_url[s] = ""
              /\ error[s] = "")
             => /\ Finished(s)
                /\ outcome[s] = "upload_failed"
                /\ ~Called(s, "detect_credit_card_info")
        /\ Called(s, "detect_credit_card_info")
             => /\ calls[s][1] = "upload_blob"
                /\ calls[s][2] = "detect_credit_card_info"
                /\ blob_url[s] = BlobUrlOf(file[s])
                /\ extract_arg[s] = blob_url[s]
        /\ pc[s] = "extract" => blob_url[s] = BlobUrlOf(file[s])

\* One upload failed, another was followed by the extraction.
C7_Witness ==
    \E s, t \in Sessions :
        /\ outcome[s] = "upload_failed"
        /\ Called(t, "detect_credit_card_info")
        /\ extract_arg[t] = "https://blob/card_b.jpg"

\* No service is called twice in one interaction.
NoRetry(s) ==
    \A i, j \in 1..Len(calls[s]) : calls[s][i] = calls[s][j] => i = j

\* C8 (as claimed): every failure ends the interaction with a reported
\* reason and never with an exception leaving the page handler, and no call
\* is retried.
C8_NoFatalFailure ==
    \A s \in Sessions :
        /\ outcome[s] # "uncaught_exception"
        /\ Finished(s) => outcome[s] # ""
        /\ NoRetry(s)

\* C9: on a query submission the page reports a validation error exactly
\* for a text rejected before execution, an execution error exactly for a
\* failure raised while executing, and "no results" exactly when the
\* execution succeeded with zero rows.
C9_ErrorsDistinct ==
    [][\A s \in Sessions : (pc[s] = "query" /\ pc'[s] = "done") =>
          LET ran == \E i \in 1..Len(calls'[s]) :
                        calls'[s][i] = "run_statement"
              q == query'[s]
          IN  /\ outcome'[s] = "validation_error" <=> ~ran
              /\ ~ran <=> ~IsSingleReadOnly(q)
              /\ outcome'[s] = "execution_error" <=> (ran /\ ExecutionFails(q))
              /\ outcome'[s] = "no_results" <=>
                    (ran /\ ~ExecutionFails(q) /\ RunSelect(q, store) = <<>>)
              /\ outcome'[s] \in {"validation_error", "execution_error",
                                  "no_results", "results"}]_vars

\* An execution error and a validation error were reported side by side.
C9_Witness ==
    \E s, t \in Sessions :
        /\ outcome[s] = "execution_error" /\ query[s] = Q_NoColumn
        /\ outcome[t] = "validation_error"
        /\ store # <<>>

\* C10: every step keeps each stored record as it is; finding the number
\* present reports the stored id and leaves the store alone; the only change
\* is the insert's append of one record whose is_valid is the verdict's and
\* whose processed_at is the time of the insert, under a fresh id.
C10_WriteOnce ==
    [][/\ Len(store') >= Len(store)
       /\ \A i \in 1..Len(store) : store'[i] = store[i]
       /\ \A s \in Sessions :
            (pc[s] = "lookup" /\ outcome'[s] = "already_exists") =>
                /\ store' = store
                /\ \E i \in 1..Len(store) :
                      /\ store[i].card_number = CardNumberOf(s)
                      /\ store[i].id = reported_id'[s]
       /\ store' # store =>
            \E s \in Sessions :
                /\ pc[s] = "insert" /\ outcome'[s] = "inserted"
                /\ Len(store') = Len(store) + 1
                /\ LET r == store'[Len(store')]
                   IN  /\ r.card_number = CardNumberOf(s)
                       /\ r.is_valid = validation_result[s].is_valid
                       /\ r.processed_at = now
                       /\ \A i \in 1..Len(store) : store[i].id < r.id]_vars

\* The second record's id was reported for a card uploaded again later.
C10_Witness ==
    \E s \in Sessions :
        /\ outcome[s] = "already_exists"
        /\ reported_id[s] = 2
        /\ now > store[2].processed_at

====
